---- MODULE Spec2Model ----
(***************************************************************************)
(* Walkabout (engine/entities.py): an entity that walks about a tile map.  *)
(* The state is one Walkabout, the tilemap handed to its move calls and    *)
(* what the last call was given, did and returned.                         *)
(***************************************************************************)
EXTENDS Integers, Sequences, FiniteSets, TLC

\* ---------------------------------------------------------------- bounds
MaxCoord == 2
MaxSize == 2
MaxSpeed == 2

\* ---------------------------------------------------------------- values
Directions == {"up", "right", "down", "left"}

Actions == {"stand", "walk"}

\* Python's None among the entries of tilemap.impassability
None == <<>>

\* pygame.Rect((x, y), (w, h)) is the tuple <<x, y, w, h>>
Rect(topleft, size) == <<topleft[1], topleft[2], size[1], size[2]>>

Topleft(r) == <<r[1], r[2]>>

RectSize(r) == <<r[3], r[4]>>

Abs(n) == IF n < 0 THEN -n ELSE n

Coords == 0..MaxCoord

Sizes == (1..MaxSize) \X (1..MaxSize)

Speeds == 1..MaxSpeed

\* the viewport offsets handed to blit
Offsets == {<<0, 0>>, <<2, 1>>}

\* impassable rectangles with an area
RectAreas ==
  {<<x, y, w, h>> : x \in Coords, y \in Coords,
                    w \in {1, 2}, h \in {1, 2}}

\* entries the collision loop skips: None and rectangles without an area
FalsyAreas == {None, <<0, 0, 0, 0>>, <<1, 1, 0, 1>>, <<1, 1, 1, 0>>}

\* tilemap.impassability: a list of rectangles and None entries
Tilemaps ==
  {<<>>} \cup {<<a>> : a \in FalsyAreas \cup RectAreas}
         \cup {<<None, <<x, y, 1, 1>> >> : x \in Coords, y \in Coords}

VARIABLES
  sprites,      \* self.sprites: action -> direction -> animation
  size,         \* self.size
  action,       \* self.action
  direction,    \* self.direction
  speed,        \* self.speed
  rect,         \* self.rect
  tilemap,      \* the impassability list of the tilemap given to move
  zeroCollides, \* whether colliderect of the installed pygame lets a
                \* zero-sized rectangle collide (1.x) or not (2.x)
  op,           \* the last call: "init", "move" or "blit"
  argDirection, \* move's direction argument ("" when op is not "move")
  argOffset,    \* blit's offset argument (<<>> when op is not "blit")
  ret,          \* what the last call returned: "True", "False" or "None"
  probes,       \* the movement rectangles the last move tested, in order
  drawn         \* the animation.blit the last call made:
                \* <<animation, position_on_screen>>, <<>> when it made none

vars == <<sprites, size, action, direction, speed, rect, tilemap,
          zeroCollides, op, argDirection, argOffset, ret,
          probes, drawn>>

\* ------------------------------------------------------------ collision
\* Rect.__nonzero__: impassable_area and ...
Truthy(area) == area # None /\ area[3] # 0 /\ area[4] # 0

\* impassable_area.colliderect(movement_rectangle)
Colliderect(A, B) ==
  IF ~zeroCollides /\ (A[3] = 0 \/ A[4] = 0 \/ B[3] = 0 \/ B[4] = 0)
  THEN FALSE
  ELSE /\ \/ (A[1] >= B[1] /\ A[1] < B[1] + B[3])
          \/ (B[1] >= A[1] /\ B[1] < A[1] + A[3])
       /\ \/ (A[2] >= B[2] /\ A[2] < B[2] + B[4])
          \/ (B[2] >= A[2] /\ B[2] < A[2] + A[4])

\* for impassable_area in tilemap.impassability: ... break
Collides(impassability, movement_rectangle) ==
  \E i \in 1..Len(impassability) :
    /\ Truthy(impassability[i])
    /\ Colliderect(impassability[i], movement_rectangle)

\* ----------------------------------------------------------------- move
\* a faulty variant: up and down take each other's sign
NewTopleft_swapped(topleft, d, pixels) ==
  CASE d = "up"    -> <<topleft[1], topleft[2] + pixels>>
    [] d = "right" -> <<topleft[1] + pixels, topleft[2]>>
    [] d = "down"  -> <<topleft[1], topleft[2] - pixels>>
    [] d = "left"  -> <<topleft[1] - pixels, topleft[2]>>
    [] OTHER       -> topleft

\* (new_topleft_x, new_topleft_y): the top-left offset by pixels
NewTopleft(topleft, d, pixels) ==
  CASE d = "up"    -> <<topleft[1], topleft[2] - pixels>>
    [] d = "right" -> <<topleft[1] + pixels, topleft[2]>>
    [] d = "down"  -> <<topleft[1], topleft[2] + pixels>>
    [] d = "left"  -> <<topleft[1] - pixels, topleft[2]>>
    [] OTHER       -> topleft

\* a faulty variant: the movement rectangle always starts at the current top-left
MovementRectangle_currentOrigin(r, sz, d, pixels) ==
  LET topleft == Topleft(r)
      cand == NewTopleft(topleft, d, pixels)
  IN  Rect(topleft, <<Abs(cand[1] + sz[1] - topleft[1]),
                      Abs(cand[2] + sz[2] - topleft[2])>>)

\* movement_rectangle for one step size
MovementRectangle(r, sz, d, pixels) ==
  LET topleft == Topleft(r)
      cand == NewTopleft(topleft, d, pixels)
      new_bottomright_x == cand[1] + sz[1]
      new_bottomright_y == cand[2] + sz[2]
      movement_size_x == Abs(new_bottomright_x - topleft[1])
      movement_size_y == Abs(new_bottomright_y - topleft[2])
      new_topleft == IF d \in {"up", "left"} THEN cand ELSE topleft
  IN  Rect(new_topleft, <<movement_size_x, movement_size_y>>)

\* xrange(start, stop, -1) as the sequence of its values
XrangeDown(start, stop) ==
  [i \in 1..(IF start > stop THEN start - stop ELSE 0) |-> start + 1 - i]

\* a faulty variant: a collision still moves the rectangle
Refuse_commits(r, sz, act, d, pixels, movement_rectangle) ==
  [ret |-> "False", rect |-> Rect(NewTopleft(Topleft(r), d, pixels), sz),
   action |-> act, probes |-> <<movement_rectangle>>]

\* a faulty variant: a collision puts the entity back to standing
Refuse_stands(r, sz, act, d, pixels, movement_rectangle) ==
  [ret |-> "False", rect |-> r, action |-> "stand",
   probes |-> <<movement_rectangle>>]

\* if movement_rectangle_collides: return False
Refuse(r, sz, act, d, pixels, movement_rectangle) ==
  [ret |-> "False", rect |-> r, action |-> act,
   probes |-> <<movement_rectangle>>]

\* a faulty variant: the move is committed without the walk action
Commit_keepsAction(r, sz, act, d, pixels, movement_rectangle) ==
  [ret |-> "True", rect |-> Rect(NewTopleft(Topleft(r), d, pixels), sz),
   action |-> act, probes |-> <<movement_rectangle>>]

\* a faulty variant: the new rectangle takes the movement rectangle's size
Commit_probeSized(r, sz, act, d, pixels, movement_rectangle) ==
  [ret |-> "True",
   rect |-> Rect(NewTopleft(Topleft(r), d, pixels),
                 RectSize(movement_rectangle)),
   action |-> "walk", probes |-> <<movement_rectangle>>]

\* else: self.rect = new_sprite_rect; self.action = 'walk'; return True
Commit(r, sz, act, d, pixels, movement_rectangle) ==
  [ret |-> "True", rect |-> Rect(NewTopleft(Topleft(r), d, pixels), sz),
   action |-> "walk", probes |-> <<movement_rectangle>>]

\* The for loop over the step sizes left.  Both branches of the collision
\* test return, so the loop ends in its first iteration: only the first step
\* size is ever tested.  With no step size at all the method falls off its
\* end and returns None.
MoveLoop(pixelsLeft, r, sz, act, d, impassability) ==
  IF pixelsLeft = <<>>
  THEN [ret |-> "None", rect |-> r, action |-> act, probes |-> <<>>]
  ELSE LET pixels == Head(pixelsLeft)
           movement_rectangle == MovementRectangle(r, sz, d, pixels)
       IN  IF Collides(impassability, movement_rectangle)
           THEN Refuse(r, sz, act, d, pixels, movement_rectangle)
           ELSE Commit(r, sz, act, d, pixels, movement_rectangle)

InWorld(topleft) == topleft[1] \in Coords /\ topleft[2] \in Coords

\* a faulty variant: the entity turns only when the move succeeds
Move_faceOnSuccess(d) ==
  /\ InWorld(NewTopleft(Topleft(rect), d, speed))
  /\ LET out == MoveLoop(XrangeDown(speed, 0), rect, size, action, d, tilemap)
     IN  /\ direction' = (IF out.ret = "True" THEN d ELSE direction)
         /\ rect' = out.rect
         /\ action' = out.action
         /\ ret' = out.ret
         /\ probes' = out.probes
  /\ op' = "move"
  /\ argDirection' = d
  /\ argOffset' = <<>>
  /\ drawn' = <<>>
  /\ UNCHANGED <<sprites, size, speed, tilemap, zeroCollides>>

\* Walkabout.move(direction, tilemap)
Move(d) ==
  /\ InWorld(NewTopleft(Topleft(rect), d, speed))
  /\ LET out == MoveLoop(XrangeDown(speed, 0), rect, size, action, d, tilemap)
     IN  /\ direction' = d
         /\ rect' = out.rect
         /\ action' = out.action
         /\ ret' = out.ret
         /\ probes' = out.probes
  /\ op' = "move"
  /\ argDirection' = d
  /\ argOffset' = <<>>
  /\ drawn' = <<>>
  /\ UNCHANGED <<sprites, size, speed, tilemap, zeroCollides>>

\* ----------------------------------------------------------------- blit
\* a faulty variant: the offset is added
PositionOnScreen_added(topleft, offset) ==
  <<topleft[1] + offset[1], topleft[2] + offset[2]>>

\* x -= offset[0]; y -= offset[1]
PositionOnScreen(topleft, offset) ==
  <<topleft[1] - offset[1], topleft[2] - offset[2]>>

\* Walkabout.blit(screen, offset)
Blit(offset) ==
  /\ drawn' = <<sprites[action][direction],
                PositionOnScreen(Topleft(rect), offset)>>
  /\ op' = "blit"
  /\ argDirection' = ""
  /\ argOffset' = offset
  /\ ret' = "None"
  /\ probes' = <<>>
  /\ UNCHANGED <<sprites, size, action, direction, speed, rect, tilemap,
                 zeroCollides>>

\* -------------------------------------------------------- construction
\* the entity's rectangle meets an impassable area of the tilemap
Blocked(r, impassability) == Collides(impassability, r)

Init ==
  /\ sprites = [a \in Actions |-> [d \in Directions |-> <<a, d>>]]
  /\ size \in Sizes
  /\ action = "stand"
  /\ direction = "up"
  /\ speed \in Speeds
  /\ \E start_position \in Coords \X Coords : rect = Rect(start_position, size)
  /\ tilemap \in Tilemaps
  /\ zeroCollides \in BOOLEAN
  /\ op = "init"
  /\ argDirection = ""
  /\ argOffset = <<>>
  /\ ret = "None"
  /\ probes = <<>>
  /\ drawn = <<>>

Next ==
  \/ \E d \in Directions : Move(d)
  \/ \E offset \in Offsets : Blit(offset)

Spec == Init /\ [][Next]_vars

\* The entities constructed clear of every impassable area, with the
\* colliderect that lets a rectangle without an area collide: whatever
\* collides under the other one collides under this one, so a move that
\* returns True here returns True under both.
InitClear == Init /\ zeroCollides /\ ~Blocked(rect, tilemap)

SpecClear == InitClear /\ [][Next]_vars

TypeOK ==
  /\ size \in Sizes
  /\ action \in Actions
  /\ direction \in Directions
  /\ speed \in Speeds
  /\ InWorld(Topleft(rect))
  /\ op \in {"init", "move", "blit"}
  /\ ret \in {"True", "False", "None"}

\* ------------------------------------------------------------ properties
\* the step size k leaves the movement rectangle of a move in direction d
\* from rectangle r clear of the tilemap
StepFree(r, d, k) == ~Collides(tilemap, MovementRectangle(r, size, d, k))

FreeSteps(r, d) == {k \in 1..speed : StepFree(r, d, k)}

Largest(S) == CHOOSE k \in S : \A j \in S : j <= k

\* the top-left s pixels further along d, written out per direction
Shifted(topleft, d, s) ==
  <<IF d = "right" THEN topleft[1] + s
    ELSE IF d = "left" THEN topleft[1] - s ELSE topleft[1],
    IF d = "down" THEN topleft[2] + s
    ELSE IF d = "up" THEN topleft[2] - s ELSE topleft[2]>>

NoImpassable == \A i \in 1..Len(tilemap) : ~Truthy(tilemap[i])

\* C1: when the full step collides and a smaller one does not, move returns
\* true and the top-left is displaced by the largest free step size.
C1_RoundsDown ==
  [][op' = "move" =>
       LET d == argDirection'
           free == FreeSteps(rect, d)
       IN  (speed >= 2 /\ speed \notin free /\ free # {}) =>
             /\ ret' = "True"
             /\ Topleft(rect') = Shifted(Topleft(rect), d, Largest(free))]_vars

\* C2: on a tilemap without impassable regions every move returns true and
\* shifts the top-left by exactly speed pixels along the axis and sign of the
\* direction; the entity at (100,100) moving down one pixel is at (100,101).
C2_FreeMove ==
  [][/\ LET out == MoveLoop(XrangeDown(1, 0), <<100, 100, 32, 48>>,
                            <<32, 48>>, "stand", "down", <<>>)
        IN  out.ret = "True" /\ out.rect = <<100, 101, 32, 48>>
     /\ (op' = "move" /\ NoImpassable) =>
          /\ ret' = "True"
          /\ Topleft(rect') = Shifted(Topleft(rect), argDirection', speed)]_vars

C2_Witness ==
  /\ op = "move" /\ ret = "True" /\ NoImpassable
  /\ speed >= 2 /\ argDirection = "left"

\* C3: when every step size from speed down to 1 collides, move returns
\* false and the rectangle is what it was; the entity at (100,100) of size
\* (32,48) moving right against (132,100,10,10) stays where it is.
C3_AllCollide ==
  [][/\ LET r == <<100, 100, 32, 48>>
            out == MoveLoop(XrangeDown(1, 0), r, <<32, 48>>, "stand", "right",
                            << <<132, 100, 10, 10>> >>)
        IN  out.ret = "False" /\ out.rect = r
     /\ (op' = "move" /\ FreeSteps(rect, argDirection') = {}) =>
          /\ ret' = "False"
          /\ rect' = rect]_vars

C3_Witness ==
  /\ op = "move" /\ ret = "False" /\ speed >= 2
  /\ FreeSteps(rect, argDirection) = {}

\* C4: after every move the direction is the requested one, whether the
\* move returned true or false.
C4_Facing == [][op' = "move" => direction' = argDirection']_vars

C4_Witness ==
  /\ op = "move" /\ ret = "False"
  /\ argDirection = "down" /\ direction = "down"

\* C5: a move that returns true leaves action "walk"; a move that returns
\* false leaves action as it was.
C5_Action ==
  [][op' = "move" =>
       /\ ret' = "True" => action' = "walk"
       /\ ret' = "False" => action' = action]_vars

C5_Witness == op = "move" /\ ret = "False" /\ action = "stand"

\* C6: the size of the rectangle is the entity's size in every state.
C6_SizeKept == RectSize(rect) = size

C6_Witness ==
  /\ op = "move" /\ ret = "True"
  /\ size[1] # size[2] /\ RectSize(rect) = size

\* C7: blit leaves the rectangle, direction, action, speed and size as they
\* are and draws the animation of (action, direction) at the top-left minus
\* the offset.
C7_Blit ==
  [][op' = "blit" =>
       /\ UNCHANGED <<rect, direction, action, speed, size>>
       /\ drawn' = <<sprites[action][direction],
                     <<rect[1] - argOffset'[1], rect[2] - argOffset'[2]>> >>]_vars

C7_Witness ==
  /\ op = "blit" /\ argOffset = <<2, 1>> /\ action = "walk"
  /\ drawn = <<sprites["walk"][direction], <<rect[1] - 2, rect[2] - 1>> >>

\* Rect.union: the smallest rectangle holding both
UnionRect(a, b) ==
  LET Min(m, n) == IF m < n THEN m ELSE n
      Max(m, n) == IF m > n THEN m ELSE n
      x == Min(a[1], b[1])
      y == Min(a[2], b[2])
  IN  <<x, y, Max(a[1] + a[3], b[1] + b[3]) - x,
              Max(a[2] + a[4], b[2] + b[4]) - y>>

\* the size and origin every tested rectangle has, and the union for down
\* and right
ProbeShape(r, d, p, probe) ==
  LET cand == Shifted(Topleft(r), d, p)
  IN  /\ RectSize(probe) = <<Abs(cand[1] + size[1] - r[1]),
                             Abs(cand[2] + size[2] - r[2])>>
      /\ Topleft(probe) = IF d \in {"up", "left"} THEN cand ELSE Topleft(r)
      /\ d \in {"down", "right"} => probe = UnionRect(r, Rect(cand, size))

\* the candidate rectangle shortened by p along the moved axis
Shortened(r, d, p) ==
  LET cand == Shifted(Topleft(r), d, p)
  IN  IF d = "up" THEN <<cand[1], cand[2], size[1], size[2] - p>>
      ELSE <<cand[1], cand[2], size[1] - p, size[2]>>

\* the i-th step size a move tries
StepSize(i) == speed + 1 - i

\* C8 as stated: every tested rectangle has the size and origin of the
\* formula; for down and right it is the union of the old and the new
\* rectangle, for up and left the candidate rectangle shortened by p.
C8_ProbeAsStated ==
  [][op' = "move" =>
       \A i \in 1..Len(probes') :
         /\ ProbeShape(rect, argDirection', StepSize(i), probes'[i])
         /\ argDirection' \in {"up", "left"} =>
              probes'[i] = Shortened(rect, argDirection', StepSize(i))]_vars

\* the entity's extent along the axis of d
Extent(d) == IF d \in {"up", "down"} THEN size[2] ELSE size[1]

\* C8 amended: as stated, but for up and left the tested rectangle is the
\* shortened candidate rectangle only while p is at most the entity's extent
\* along the moved axis; for a larger p its extent along that axis is p minus
\* the entity's.
C8_Probe ==
  [][op' = "move" =>
       \A i \in 1..Len(probes') :
         LET d == argDirection'
             p == StepSize(i)
             probe == probes'[i]
         IN  /\ ProbeShape(rect, d, p, probe)
             /\ (d \in {"up", "left"} /\ p <= Extent(d)) =>
                  probe = Shortened(rect, d, p)
             /\ (d \in {"up", "left"} /\ p > Extent(d)) =>
                  /\ Topleft(probe) = Shifted(Topleft(rect), d, p)
                  /\ (IF d = "up" THEN probe[4] ELSE probe[3]) = p - Extent(d)
                  /\ (IF d = "up" THEN probe[3] ELSE probe[4])
                       = (IF d = "up" THEN size[1] ELSE size[2])]_vars

C8_Witness ==
  /\ op = "move" /\ Len(probes) = 1
  /\ argDirection = "up" /\ speed > size[2]
  /\ probes[1][4] = speed - size[2]

\* C9: an entity constructed clear of the impassable regions stays clear of
\* them, and a move returns true only onto a clear rectangle.
C9_StaysClear ==
  /\ ~Blocked(rect, tilemap)
  /\ (op = "move" /\ ret = "True") => ~Blocked(rect, tilemap)

\* C10: action is "stand" until the first move that returns true and "walk"
\* in every state after it.
C10_StandThenWalk ==
  /\ (op = "init" => action = "stand")
  /\ [][/\ action = "walk" => action' = "walk"
        /\ action = "stand" =>
             action' = (IF op' = "move" /\ ret' = "True"
                        THEN "walk" ELSE "stand")]_vars

C10_Witness == op = "move" /\ ret = "False" /\ action = "walk"
====
